---------------------------- MODULE Spec2Model ----------------------------
(***************************************************************************)
(* A model of the chip8-rs virtual machine (src/src/lib.rs) and of the     *)
(* keyboard it blocks on (src/src/keys.rs).                                *)
(*                                                                         *)
(* The VM thread executes one decoded Instruction per step; a second       *)
(* thread (the input-event source) calls set_pressed / set_unpressed on a  *)
(* clone of the keyboard.  A Rust panic leaves the VM in the state it had  *)
(* reached when the panic was raised and stops the VM thread; the kind of  *)
(* panic is recorded in vm.fault.  Arithmetic overflow panics when the     *)
(* build has overflow checks (debug profile) and wraps when it has not     *)
(* (release profile): overflow_checks is fixed when the program starts.    *)
(***************************************************************************)
EXTENDS Integers, Sequences, FiniteSets, TLC

VARIABLES
    vm,               \* the VM struct: stack, display, gen_registers, reg_*
    overflow_checks,  \* the build profile: TRUE panics on overflow, FALSE wraps
    steps,            \* number of execute calls started so far
    last,             \* the Instruction of the latest execute call
    keys,             \* Keyboard.keys: the HashSet<Key> behind the mutex
    mutex,            \* who holds the keyboard mutex: "free", "vm", "writer"
    vm_pc,            \* where the VM thread is: "ready" or inside Keyboard::wait
    current_keys,     \* wait's baseline snapshot
    ret,              \* the key the latest wait returned
    w_pc,             \* where the writer thread is inside set_pressed/set_unpressed
    w_call,           \* the writer's current call: [op, key]
    w_ops,            \* number of writer calls started so far
    w_log,            \* mutations the writer applied since wait took its baseline
    channel,          \* frames sent to the render thread and not yet received
    game_display,     \* MyGame.display: the frame the render thread draws
    receiver          \* the channel's Receiver: "alive", or "dropped" with MyGame

vars == <<vm, overflow_checks, steps, last, keys, mutex, vm_pc, current_keys,
          ret, w_pc, w_call, w_ops, w_log, channel, game_display, receiver>>

rendervars == <<channel, game_display, receiver>>

kbdvars == <<keys, mutex, vm_pc, current_keys, ret, w_pc, w_call, w_ops, w_log>>

writervars == <<w_pc, w_call, w_ops, w_log>>

(***************************************************************************)
(* Program constants                                                       *)
(***************************************************************************)
RAM_SIZE == 4096

STACK_SIZE == 16

DISPLAY_HEIGHT == 32

NUM_REGISTERS == 16

\* width of one display row (u64)
DISPLAY_WIDTH == 64

\* index of the flag register VF
VF == 15

(***************************************************************************)
(* Bounds of the model                                                     *)
(***************************************************************************)
\* execute calls per run of the general specification
MaxSteps == 2

\* execute calls per run of the CALL/RET specification
MaxStackSteps == 17

\* writer calls per run of the general specification
MaxPresses == 1

\* writer calls per run of the keyboard specification
MaxWriterOps == 4

\* register indices the instructions of the general specification name
GenRegs == {0, VF}

\* immediate bytes of the general specification
GenBytes == {2, 200}

\* 12-bit addresses of the general specification
GenAddrs == {768}

\* sprite heights of the general specification
GenHeights == {1}

\* keys the writer thread presses and releases in the general specification
GenKeys == {"Key2"}

\* bytes the random generator yields in the model
RndBytes == {5, 255}

\* keys the writer thread presses and releases in the keyboard specification
WriterKeys == {"Key2", "Key4"}

\* LD4 calls per run of the keyboard specification
MaxWaits == 1

\* register indices LD4 names in the keyboard specifications
KbdRegs == {1, VF}

\* addresses CALL names in the CALL/RET specification
StackAddrs == {512}

\* execute calls per run of the arithmetic specification
MaxAluSteps == 3

\* register indices and immediate bytes of the arithmetic specification
AluRegs == {0, 1, VF}

AluBytes == {1, 128, 129, 255}

\* execute calls per run of the drawing specification
MaxDrawSteps == 4

\* register indices and immediate bytes of the drawing specification
DrawRegs == {0, 1}

DrawBytes == {4, 5}

\* sprite heights of the drawing specification
DrawHeights == {1, 2}

\* execute calls and writer calls per run of the key-skip specification
MaxSkipSteps == 3

MaxSkipPresses == 2

\* register indices, immediate bytes and keys of the key-skip specification
SkipRegs == {0, 1}

SkipBytes == {15, 16}

SkipKeys == {"Key2", "KeyF"}

\* execute calls per run of the display-edge specification
MaxEdgeSteps == 3

\* register indices, immediate bytes and sprite heights of the display-edge
\* specification
EdgeRegs == {0, 1}

EdgeBytes == {31, 57, 200}

EdgeHeights == {0, 1, 2}

\* execute calls per run of the subroutine specification
MaxCallSteps == 4

\* addresses CALL and JP name in the subroutine specification
CallAddrs == {512, 768}

\* keyboard calls of the other thread per run of the keyboard-access
\* specification
MaxAccessOps == 3

\* execute calls per run of the rendering specification
MaxRenderSteps == 2

\* frames that may sit unread in the channel in the rendering specification
MaxFrames == 3

(***************************************************************************)
(* Keys (keys.rs)                                                          *)
(***************************************************************************)
KeyNames == <<"Key0", "Key1", "Key2", "Key3", "Key4", "Key5", "Key6", "Key7",
              "Key8", "Key9", "KeyA", "KeyB", "KeyC", "KeyD", "KeyE", "KeyF">>

Key == {KeyNames[i] : i \in 1..Len(KeyNames)}

None == "None"

\* a from_num that looks at the low nibble only and so always finds a key
from_num_low_nibble(num) == KeyNames[(num % 16) + 1]

\* Key::from_num: the variant whose discriminant is num, or None
from_num(num) == IF num < Len(KeyNames) THEN KeyNames[num + 1] ELSE None

\* a to_num over discriminants that start at 1
to_num_one_based(key) == CHOOSE n \in 1..Len(KeyNames) : KeyNames[n] = key

\* Key::to_num: the discriminant of the variant
to_num(key) == CHOOSE n \in 0..(Len(KeyNames) - 1) : KeyNames[n + 1] = key

(***************************************************************************)
(* Bit operations on bytes                                                 *)
(***************************************************************************)
RECURSIVE BitAnd(_, _), BitOr(_, _), BitXor(_, _)

BitAnd(a, b) ==
    IF a = 0 \/ b = 0 THEN 0
    ELSE (IF a % 2 = 1 /\ b % 2 = 1 THEN 1 ELSE 0) + 2 * BitAnd(a \div 2, b \div 2)

BitOr(a, b) ==
    IF a = 0 THEN b
    ELSE IF b = 0 THEN a
    ELSE (IF a % 2 = 1 \/ b % 2 = 1 THEN 1 ELSE 0) + 2 * BitOr(a \div 2, b \div 2)

BitXor(a, b) ==
    IF a = 0 THEN b
    ELSE IF b = 0 THEN a
    ELSE (IF a % 2 # b % 2 THEN 1 ELSE 0) + 2 * BitXor(a \div 2, b \div 2)

\* the positions (0 = least significant) of the bits set in byte b
BitsOf(b) == {j \in 0..7 : (b \div (2 ^ j)) % 2 = 1}

(***************************************************************************)
(* VM construction (lib.rs)                                                *)
(***************************************************************************)
FontBytes ==
    <<240, 144, 144, 144, 240,   32,  96,  32,  32, 112,
      240,  16, 240, 128, 240,  240,  16, 240,  16, 240,
      144, 144, 240,  16,  16,  240, 128, 240,  16, 240,
      240, 128, 240, 144, 240,  240,  16,  32,  64,  64,
      240, 144, 240, 144, 240,  240, 144, 240,  16, 240,
      240, 144, 240, 144, 144,  224, 144, 224, 144, 224,
      240, 128, 128, 128, 240,  224, 144, 144, 144, 224,
      240, 128, 240, 128, 240,  240, 128, 240, 128, 128>>

\* create_memory(): the digit sprites at 0..79, zero elsewhere.  execute never
\* writes memory, so the array is the same in every state.
memory(a) == IF a < Len(FontBytes) THEN FontBytes[a + 1] ELSE 0

create_stack == [i \in 0..(STACK_SIZE - 1) |-> 0]

\* a display row is the set of bit positions (63 = leftmost pixel) that are set
create_display == [r \in 0..(DISPLAY_HEIGHT - 1) |-> {}]

create_gen_registers == [i \in 0..(NUM_REGISTERS - 1) |-> 0]

VM_new ==
    [stack |-> create_stack,
     display |-> create_display,
     gen_registers |-> create_gen_registers,
     reg_i |-> 0,
     reg_pc |-> 0,
     reg_sp |-> 0,
     reg_delay |-> 0,
     reg_sound |-> 0,
     fault |-> "none"]

Instr(op, a, b, c) == [op |-> op, a |-> a, b |-> b, c |-> c]

NoInstr == Instr("none", 0, 0, 0)

(***************************************************************************)
(* Panics and checked arithmetic                                           *)
(***************************************************************************)
\* a panic: the VM keeps the state it had reached and the thread stops
Panic(v, kind) == [v EXCEPT !.fault = kind]

\* an unsigned value that left 0..(limit-1): the build decides how it ends
Overflows(n, limit) == n < 0 \/ n >= limit

\* self.reg_pc += k on a u16
pc_add(v, k) ==
    IF Overflows(v.reg_pc + k, 65536)
    THEN IF overflow_checks THEN Panic(v, "overflow")
         ELSE [v EXCEPT !.reg_pc = (v.reg_pc + k) % 65536]
    ELSE [v EXCEPT !.reg_pc = v.reg_pc + k]

\* gen_registers[x] = value
set_reg(v, x, value) == [v EXCEPT !.gen_registers[x] = value]

(***************************************************************************)
(* VM::execute, one operator per match arm (lib.rs 96-305)                 *)
(***************************************************************************)
\* SYS handled like the arms around it: self.reg_pc += 1
exec_SYS_advances(v, addr) == pc_add(v, 1)

\* SYS handled as the jump to a machine routine it once was
exec_SYS_jumps(v, addr) == [v EXCEPT !.reg_pc = addr]

\* the wildcard arm `_ => {}`: Instruction::SYS is the only variant left to it
exec_SYS(v, addr) == v

exec_CLS(v) == pc_add([v EXCEPT !.display = [r \in 0..(DISPLAY_HEIGHT - 1) |-> {}]], 1)

exec_RET(v) ==
    IF v.reg_sp >= STACK_SIZE THEN Panic(v, "index")
    ELSE LET v1 == [v EXCEPT !.reg_pc = v.stack[v.reg_sp]]
         IN  IF Overflows(v1.reg_sp - 1, 256)
             THEN IF overflow_checks THEN Panic(v1, "overflow")
                  ELSE [v1 EXCEPT !.reg_sp = (v1.reg_sp - 1) % 256]
             ELSE [v1 EXCEPT !.reg_sp = v1.reg_sp - 1]

exec_JP(v, addr) == [v EXCEPT !.reg_pc = addr]

exec_CALL(v, addr) ==
    IF Overflows(v.reg_sp + 1, 256) /\ overflow_checks THEN Panic(v, "overflow")
    ELSE LET v1 == [v EXCEPT !.reg_sp = (v.reg_sp + 1) % 256]
         IN  IF v1.reg_sp >= STACK_SIZE THEN Panic(v1, "index")
             ELSE [v1 EXCEPT !.stack[v1.reg_sp] = v.reg_pc, !.reg_pc = addr]

exec_SE(v, x, byte) ==
    IF v.gen_registers[x] = byte THEN pc_add(v, 2) ELSE pc_add(v, 1)

exec_SNE(v, x, byte) ==
    IF v.gen_registers[x] # byte THEN pc_add(v, 2) ELSE pc_add(v, 1)

exec_SE2(v, x, y) ==
    IF v.gen_registers[x] = v.gen_registers[y] THEN pc_add(v, 2) ELSE pc_add(v, 1)

exec_LD(v, x, byte) == pc_add(set_reg(v, x, byte), 1)

exec_ADD(v, x, byte) ==
    LET sum == v.gen_registers[x] + byte
    IN  IF Overflows(sum, 256) /\ overflow_checks THEN Panic(v, "overflow")
        ELSE pc_add(set_reg(v, x, sum % 256), 1)

exec_LD2(v, x, y) == pc_add(set_reg(v, x, v.gen_registers[y]), 1)

exec_OR(v, x, y) ==
    pc_add(set_reg(v, x, BitOr(v.gen_registers[x], v.gen_registers[y])), 1)

exec_AND(v, x, y) ==
    pc_add(set_reg(v, x, BitAnd(v.gen_registers[x], v.gen_registers[y])), 1)

exec_XOR(v, x, y) ==
    pc_add(set_reg(v, x, BitXor(v.gen_registers[x], v.gen_registers[y])), 1)

\* ADD Vx,Vy that sets VF on carry and never clears it
exec_ADD2_stale_flag(v, x, y) ==
    LET result == v.gen_registers[x] + v.gen_registers[y]
    IN  IF result > 255
        THEN pc_add(set_reg(set_reg(v, VF, 1), x, result % 256), 1)
        ELSE pc_add(set_reg(v, x, result % 256), 1)

exec_ADD2(v, x, y) ==
    LET result == v.gen_registers[x] + v.gen_registers[y]
    IN  IF result > 255
        THEN pc_add(set_reg(set_reg(v, VF, 1), x, result % 256), 1)
        ELSE pc_add(set_reg(set_reg(v, x, result % 256), VF, 0), 1)

\* SUB Vx,Vy that takes the no-borrow branch when Vx = Vy as well
exec_SUB_nonstrict(v, x, y) ==
    IF v.gen_registers[x] >= v.gen_registers[y]
    THEN pc_add(set_reg(set_reg(v, x, v.gen_registers[x] - v.gen_registers[y]), VF, 1), 1)
    ELSE pc_add(set_reg(set_reg(v, x, v.gen_registers[y] - v.gen_registers[x]), VF, 0), 1)

exec_SUB(v, x, y) ==
    IF v.gen_registers[x] > v.gen_registers[y]
    THEN pc_add(set_reg(set_reg(v, x, v.gen_registers[x] - v.gen_registers[y]), VF, 1), 1)
    ELSE pc_add(set_reg(set_reg(v, x, v.gen_registers[y] - v.gen_registers[x]), VF, 0), 1)

exec_SHR(v, x) ==
    LET v1 == set_reg(v, VF, IF v.gen_registers[x] % 2 = 0 THEN 0 ELSE 1)
    IN  pc_add(set_reg(v1, x, v1.gen_registers[x] \div 2), 1)

exec_SUBN(v, x, y) ==
    IF v.gen_registers[y] > v.gen_registers[x]
    THEN pc_add(set_reg(set_reg(v, x, v.gen_registers[y] - v.gen_registers[x]), VF, 1), 1)
    ELSE pc_add(set_reg(set_reg(v, x, v.gen_registers[x] - v.gen_registers[y]), VF, 0), 1)

\* SHL Vx that shifts first and takes the flag from the shifted value
exec_SHL_flag_after(v, x) ==
    LET v1 == set_reg(v, x, (v.gen_registers[x] * 2) % 256)
    IN  pc_add(set_reg(v1, VF, IF v1.gen_registers[x] >= 128 THEN 1 ELSE 0), 1)

exec_SHL(v, x) ==
    LET v1 == set_reg(v, VF, IF v.gen_registers[x] >= 128 THEN 1 ELSE 0)
    IN  pc_add(set_reg(v1, x, (v1.gen_registers[x] * 2) % 256), 1)

exec_SNE2(v, x, y) ==
    IF v.gen_registers[x] # v.gen_registers[y] THEN pc_add(v, 2) ELSE pc_add(v, 1)

exec_LDI(v, addr) == pc_add([v EXCEPT !.reg_i = addr], 1)

\* JP V0,addr followed by the self.reg_pc += 1 of the arms around it
exec_JPV0_autoinc(v, addr) == pc_add([v EXCEPT !.reg_pc = addr + v.gen_registers[0]], 1)

exec_JPV0(v, addr) ==
    LET target == addr + v.gen_registers[0]
    IN  IF Overflows(target, 65536) /\ overflow_checks THEN Panic(v, "overflow")
        ELSE [v EXCEPT !.reg_pc = target % 65536]

\* value is what (*(self.rng)).next_u32() as u8 yielded
exec_RND(v, x, byte, value) == pc_add(set_reg(v, x, BitAnd(value, byte)), 1)

\* create_sprite_mask's shift amount 64 - 8 - x, computed in u8; without
\* overflow checks the u64 shift takes the amount modulo 64
mask_shift(x) == ((DISPLAY_WIDTH - 8 - x) % 256) % DISPLAY_WIDTH

\* create_sprite_mask: (sprite as u64) << shift, bits shifted past bit 63 are lost
create_sprite_mask(sprite, x) ==
    {j + mask_shift(x) : j \in {b \in BitsOf(sprite) : b + mask_shift(x) < DISPLAY_WIDTH}}

\* a ^ b on display rows
row_xor(a, b) == (a \ b) \cup (b \ a)

\* the flag one drawn row leaves in VF: 0 when sprite_row & result == sprite_row
row_flag(sprite_row, result) == IF sprite_row \subseteq result THEN 0 ELSE 1

RECURSIVE draw_rows(_, _, _, _, _, _)
\* the body of `for i in 0..n`, from row i on
draw_rows(v, x, vx, vy, i, n) ==
    IF i >= n THEN v
    ELSE IF v.reg_i + i >= RAM_SIZE THEN Panic(v, "index")
    ELSE IF Overflows(DISPLAY_WIDTH - 8 - vx, 256) /\ overflow_checks THEN Panic(v, "overflow")
    ELSE LET data == memory(v.reg_i + i)
             sprite_row == create_sprite_mask(data, vx)
             result == row_xor(v.display[x], sprite_row)
             v1 == set_reg(v, VF, row_flag(sprite_row, result))
         IN  IF Overflows(vy + i, 256) /\ overflow_checks THEN Panic(v1, "overflow")
             ELSE IF (vy + i) % 256 >= DISPLAY_HEIGHT THEN Panic(v1, "index")
             ELSE draw_rows([v1 EXCEPT !.display[(vy + i) % 256] = result],
                            x, vx, vy, i + 1, n)

RECURSIVE draw_rows_wrapping(_, _, _, _, _, _)
\* the loop of DRW with the row index taken modulo the display height
draw_rows_wrapping(v, x, vx, vy, i, n) ==
    IF i >= n THEN v
    ELSE IF v.reg_i + i >= RAM_SIZE THEN Panic(v, "index")
    ELSE IF Overflows(DISPLAY_WIDTH - 8 - vx, 256) /\ overflow_checks THEN Panic(v, "overflow")
    ELSE LET sprite_row == create_sprite_mask(memory(v.reg_i + i), vx)
             result == row_xor(v.display[x], sprite_row)
             v1 == set_reg(v, VF, row_flag(sprite_row, result))
         IN  draw_rows_wrapping([v1 EXCEPT !.display[(vy + i) % DISPLAY_HEIGHT] = result],
                                x, vx, vy, i + 1, n)

\* DRW that wraps rows beyond the last one round to the top of the display
exec_DRW_wrapping_rows(v, x, y, n) ==
    LET drawn == draw_rows_wrapping(v, x, v.gen_registers[x], v.gen_registers[y], 0, n)
    IN  IF drawn.fault # "none" THEN drawn ELSE pc_add(drawn, 1)

exec_DRW(v, x, y, n) ==
    LET drawn == draw_rows(v, x, v.gen_registers[x], v.gen_registers[y], 0, n)
    IN  IF drawn.fault # "none" THEN drawn ELSE pc_add(drawn, 1)

\* pressed is what self.keyboard.is_pressed(&key) answers
exec_SKP(v, x, pressed) ==
    IF from_num(v.gen_registers[x]) = None THEN Panic(v, "unwrap")
    ELSE IF from_num(v.gen_registers[x]) \in pressed THEN pc_add(v, 2) ELSE pc_add(v, 1)

\* SKNP Vx with the branches of SKP Vx
exec_SKNP_as_SKP(v, x, pressed) ==
    IF from_num(v.gen_registers[x]) = None THEN Panic(v, "unwrap")
    ELSE IF from_num(v.gen_registers[x]) \in pressed THEN pc_add(v, 2) ELSE pc_add(v, 1)

exec_SKNP(v, x, pressed) ==
    IF from_num(v.gen_registers[x]) = None THEN Panic(v, "unwrap")
    ELSE IF from_num(v.gen_registers[x]) \in pressed THEN pc_add(v, 1) ELSE pc_add(v, 2)

exec_LD3(v, x) == pc_add(set_reg(v, x, v.reg_delay), 1)

\* an LD4 arm that stores the key and forgets self.reg_pc += 1
exec_LD4_keeps_pc(v, x, key) == set_reg(v, x, to_num(key))

\* the part of the LD4 arm that follows self.keyboard.wait()
exec_LD4(v, x, key) == pc_add(set_reg(v, x, to_num(key)), 1)

exec_LD5(v, x) == pc_add([v EXCEPT !.reg_delay = v.gen_registers[x]], 1)

exec_LD6(v, x) == pc_add([v EXCEPT !.reg_sound = v.gen_registers[x]], 1)

exec_ADD3(v, x) ==
    LET sum == v.reg_i + v.gen_registers[x]
    IN  IF Overflows(sum, 65536) /\ overflow_checks THEN Panic(v, "overflow")
        ELSE pc_add([v EXCEPT !.reg_i = sum % 65536], 1)

\* digit(): (digit * 5) as usize, the product computed in u8
exec_LD7(v, x) ==
    LET product == v.gen_registers[x] * 5
    IN  IF Overflows(product, 256) /\ overflow_checks THEN Panic(v, "overflow")
        ELSE pc_add([v EXCEPT !.reg_i = product % 256], 1)

(***************************************************************************)
(* Keyboard (keys.rs): the writer thread                                   *)
(***************************************************************************)
NoCall == [op |-> "none", key |-> None]

\* self.keys.0.lock().unwrap() at the head of set_pressed / set_unpressed
WriterLock(op, key) ==
    /\ w_pc = "idle"
    /\ mutex = "free"
    /\ mutex' = "writer"
    /\ w_pc' = "locked"
    /\ w_call' = [op |-> op, key |-> key]
    /\ w_ops' = w_ops + 1
    /\ UNCHANGED <<rendervars, vm, overflow_checks, steps, last, keys, vm_pc, current_keys, ret, w_log>>

\* a mutation that wakes nobody
notify_nobody(pc) == pc

\* self.keys.1.notify_all(): every thread parked on the condvar is woken; a
\* thread that is not parked at this moment does not see the notification
notify_all(pc) == IF pc = "wait_parked" THEN "wait_woken" ELSE pc

\* the pressed set after the writer's call
mutated(ks, call) ==
    IF call.op = "set_pressed" THEN ks \cup {call.key} ELSE ks \ {call.key}

\* (*k).insert(key) or (*k).remove(&key), then notify_all, mutex still held
WriterMutate ==
    /\ w_pc = "locked"
    /\ w_call.op \in {"set_pressed", "set_unpressed"}
    /\ keys' = mutated(keys, w_call)
    /\ vm_pc' = notify_all(vm_pc)
    /\ w_pc' = "notified"
    /\ w_log' = IF vm_pc = "ready" THEN w_log ELSE Append(w_log, w_call)
    /\ UNCHANGED <<rendervars, vm, overflow_checks, steps, last, mutex, current_keys, ret, w_call, w_ops>>

\* the MutexGuard k is dropped when set_pressed / set_unpressed returns
WriterUnlock ==
    /\ w_pc = "notified"
    /\ mutex' = "free"
    /\ w_pc' = "idle"
    /\ UNCHANGED <<rendervars, vm, overflow_checks, steps, last, keys, vm_pc, current_keys, ret,
                   w_call, w_ops, w_log>>

\* a wait that parks on the condvar without giving up the mutex
WaitPark_holding_mutex ==
    /\ vm_pc = "wait_locked"
    /\ vm_pc' = "wait_parked"
    /\ UNCHANGED <<rendervars, vm, overflow_checks, steps, last, keys, mutex, current_keys, ret,
                   w_pc, w_call, w_ops, w_log>>

\* is_pressed called by the other thread: (*k).contains(key) under the lock,
\* and the guard is dropped when the call returns
WriterRead ==
    /\ w_pc = "locked"
    /\ w_call.op = "is_pressed"
    /\ mutex' = "free"
    /\ w_pc' = "idle"
    /\ UNCHANGED <<rendervars, vm, overflow_checks, steps, last, keys, vm_pc, current_keys, ret,
                   w_call, w_ops, w_log>>

(***************************************************************************)
(* Keyboard::wait, called by the LD4 arm of execute                        *)
(***************************************************************************)
\* a presence-based wait: any pressed key counts, held down before or not
new_keys_presence(ks, baseline) == ks

\* the keys wait may return: (*new_keys).difference(&current_keys)
new_keys(ks, baseline) == ks \ baseline

\* the closure handed to wait_until: !result.is_empty()
wait_condition(ks, baseline) == new_keys(ks, baseline) # {}

\* the VM thread can start an execute call
CanExecute == vm.fault = "none" /\ vm_pc = "ready"

\* execute(LD4(x)) calls wait: lock the mutex and clone the pressed set
WaitEnter(x) ==
    /\ CanExecute
    /\ mutex = "free"
    /\ mutex' = "vm"
    /\ current_keys' = keys
    /\ vm_pc' = "wait_locked"
    /\ steps' = steps + 1
    /\ last' = Instr("LD4", x, 0, 0)
    /\ w_log' = <<>>
    /\ UNCHANGED <<rendervars, vm, overflow_checks, keys, ret, w_pc, w_call, w_ops>>

\* wait_until finds the condition false: Condvar::wait releases the mutex and parks
WaitPark ==
    /\ vm_pc = "wait_locked"
    /\ ~wait_condition(keys, current_keys)
    /\ mutex' = "free"
    /\ vm_pc' = "wait_parked"
    /\ UNCHANGED <<rendervars, vm, overflow_checks, steps, last, keys, current_keys, ret, writervars>>

\* Condvar::wait may return without a notification
WaitSpuriousWake ==
    /\ vm_pc = "wait_parked"
    /\ vm_pc' = "wait_woken"
    /\ UNCHANGED <<rendervars, vm, overflow_checks, steps, last, keys, mutex, current_keys, ret, writervars>>

\* a woken waiter takes the mutex again before wait_until re-checks the condition
WaitReacquire ==
    /\ vm_pc = "wait_woken"
    /\ mutex = "free"
    /\ mutex' = "vm"
    /\ vm_pc' = "wait_locked"
    /\ UNCHANGED <<rendervars, vm, overflow_checks, steps, last, keys, current_keys, ret, writervars>>

\* wait_until finds the condition true: wait returns the first key the HashSet
\* iterator yields (any one of them), the guard is dropped, and the LD4 arm
\* stores the key's number
WaitReturn ==
    /\ vm_pc = "wait_locked"
    /\ wait_condition(keys, current_keys)
    /\ \E key \in new_keys(keys, current_keys) :
          /\ ret' = key
          /\ vm' = exec_LD4(vm, last.a, key)
    /\ mutex' = "free"
    /\ vm_pc' = "ready"
    /\ UNCHANGED <<rendervars, overflow_checks, steps, last, keys, current_keys, writervars>>

(***************************************************************************)
(* VM::execute: one action per match arm                                   *)
(***************************************************************************)
Step(instr, v) ==
    /\ CanExecute
    /\ vm' = v
    /\ steps' = steps + 1
    /\ last' = instr
    /\ UNCHANGED <<rendervars, overflow_checks, kbdvars>>

ExecSYS(addr) == Step(Instr("SYS", addr, 0, 0), exec_SYS(vm, addr))

ExecCLS == Step(Instr("CLS", 0, 0, 0), exec_CLS(vm))

ExecRET == Step(Instr("RET", 0, 0, 0), exec_RET(vm))

ExecJP(addr) == Step(Instr("JP", addr, 0, 0), exec_JP(vm, addr))

ExecCALL(addr) == Step(Instr("CALL", addr, 0, 0), exec_CALL(vm, addr))

ExecSE(x, byte) == Step(Instr("SE", x, byte, 0), exec_SE(vm, x, byte))

ExecSNE(x, byte) == Step(Instr("SNE", x, byte, 0), exec_SNE(vm, x, byte))

ExecSE2(x, y) == Step(Instr("SE2", x, y, 0), exec_SE2(vm, x, y))

ExecLD(x, byte) == Step(Instr("LD", x, byte, 0), exec_LD(vm, x, byte))

ExecADD(x, byte) == Step(Instr("ADD", x, byte, 0), exec_ADD(vm, x, byte))

ExecLD2(x, y) == Step(Instr("LD2", x, y, 0), exec_LD2(vm, x, y))

ExecOR(x, y) == Step(Instr("OR", x, y, 0), exec_OR(vm, x, y))

ExecAND(x, y) == Step(Instr("AND", x, y, 0), exec_AND(vm, x, y))

ExecXOR(x, y) == Step(Instr("XOR", x, y, 0), exec_XOR(vm, x, y))

ExecADD2(x, y) == Step(Instr("ADD2", x, y, 0), exec_ADD2(vm, x, y))

ExecSUB(x, y) == Step(Instr("SUB", x, y, 0), exec_SUB(vm, x, y))

ExecSHR(x, y) == Step(Instr("SHR", x, y, 0), exec_SHR(vm, x))

ExecSUBN(x, y) == Step(Instr("SUBN", x, y, 0), exec_SUBN(vm, x, y))

ExecSHL(x, y) == Step(Instr("SHL", x, y, 0), exec_SHL(vm, x))

ExecSNE2(x, y) == Step(Instr("SNE2", x, y, 0), exec_SNE2(vm, x, y))

ExecLDI(addr) == Step(Instr("LDI", addr, 0, 0), exec_LDI(vm, addr))

ExecJPV0(addr) == Step(Instr("JPV0", addr, 0, 0), exec_JPV0(vm, addr))

ExecRND(x, byte) ==
    \E value \in RndBytes : Step(Instr("RND", x, byte, 0), exec_RND(vm, x, byte, value))

ExecDRW(x, y, n) == Step(Instr("DRW", x, y, n), exec_DRW(vm, x, y, n))

\* is_pressed locks the keyboard mutex to read the pressed set
ExecSKP(x) == mutex = "free" /\ Step(Instr("SKP", x, 0, 0), exec_SKP(vm, x, keys))

ExecSKNP(x) == mutex = "free" /\ Step(Instr("SKNP", x, 0, 0), exec_SKNP(vm, x, keys))

ExecLD3(x) == Step(Instr("LD3", x, 0, 0), exec_LD3(vm, x))

ExecLD5(x) == Step(Instr("LD5", x, 0, 0), exec_LD5(vm, x))

ExecLD6(x) == Step(Instr("LD6", x, 0, 0), exec_LD6(vm, x))

ExecADD3(x) == Step(Instr("ADD3", x, 0, 0), exec_ADD3(vm, x))

ExecLD7(x) == Step(Instr("LD7", x, 0, 0), exec_LD7(vm, x))

(***************************************************************************)
(* The frame hand-off (render.rs)                                          *)
(***************************************************************************)
\* Renderer::render: self.sender.send(display).unwrap() on the channel that
\* mpsc::channel() made: send queues the frame and returns, and fails, so that
\* unwrap panics, once the Receiver is gone
Render ==
    /\ CanExecute
    /\ IF receiver = "dropped"
       THEN vm' = Panic(vm, "unwrap") /\ channel' = channel
       ELSE vm' = vm /\ channel' = Append(channel, vm.display)
    /\ UNCHANGED <<overflow_checks, steps, last, kbdvars, game_display, receiver>>

\* the frame try_recv yields: the one that was sent first
try_recv(ch) == Head(ch)

\* MyGame::update: if let Ok(display) = self.receiver.try_recv(); with an
\* empty channel update leaves the frame as it is
Update ==
    /\ receiver = "alive"
    /\ channel # <<>>
    /\ game_display' = try_recv(channel)
    /\ channel' = Tail(channel)
    /\ UNCHANGED <<vm, overflow_checks, steps, last, kbdvars, receiver>>

\* event::run returns (the window is closed): MyGame and its Receiver are
\* dropped when the render thread ends
GameExit ==
    /\ receiver = "alive"
    /\ receiver' = "dropped"
    /\ UNCHANGED <<vm, overflow_checks, steps, last, kbdvars, channel, game_display>>

(***************************************************************************)
(* Specifications                                                          *)
(***************************************************************************)
\* VM::new() with Keyboard::new() and Renderer::new(), in either build profile
Init ==
    /\ vm = VM_new
    /\ overflow_checks \in BOOLEAN
    /\ steps = 0
    /\ last = NoInstr
    /\ keys = {}
    /\ mutex = "free"
    /\ vm_pc = "ready"
    /\ current_keys = {}
    /\ ret = None
    /\ w_pc = "idle"
    /\ w_call = NoCall
    /\ w_ops = 0
    /\ w_log = <<>>
    /\ channel = <<>>
    /\ game_display = create_display
    /\ receiver = "alive"

\* a driver feeding any instruction, beside a writer thread
Next ==
    \/ steps < MaxSteps /\ \E addr \in GenAddrs : ExecSYS(addr)
    \/ steps < MaxSteps /\ ExecCLS
    \/ steps < MaxSteps /\ ExecRET
    \/ steps < MaxSteps /\ \E addr \in GenAddrs : ExecJP(addr)
    \/ steps < MaxSteps /\ \E addr \in GenAddrs : ExecCALL(addr)
    \/ steps < MaxSteps /\ \E x \in GenRegs, byte \in GenBytes : ExecSE(x, byte)
    \/ steps < MaxSteps /\ \E x \in GenRegs, byte \in GenBytes : ExecSNE(x, byte)
    \/ steps < MaxSteps /\ \E x \in GenRegs, y \in GenRegs : ExecSE2(x, y)
    \/ steps < MaxSteps /\ \E x \in GenRegs, byte \in GenBytes : ExecLD(x, byte)
    \/ steps < MaxSteps /\ \E x \in GenRegs, byte \in GenBytes : ExecADD(x, byte)
    \/ steps < MaxSteps /\ \E x \in GenRegs, y \in GenRegs : ExecLD2(x, y)
    \/ steps < MaxSteps /\ \E x \in GenRegs, y \in GenRegs : ExecOR(x, y)
    \/ steps < MaxSteps /\ \E x \in GenRegs, y \in GenRegs : ExecAND(x, y)
    \/ steps < MaxSteps /\ \E x \in GenRegs, y \in GenRegs : ExecXOR(x, y)
    \/ steps < MaxSteps /\ \E x \in GenRegs, y \in GenRegs : ExecADD2(x, y)
    \/ steps < MaxSteps /\ \E x \in GenRegs, y \in GenRegs : ExecSUB(x, y)
    \/ steps < MaxSteps /\ \E x \in GenRegs, y \in GenRegs : ExecSHR(x, y)
    \/ steps < MaxSteps /\ \E x \in GenRegs, y \in GenRegs : ExecSUBN(x, y)
    \/ steps < MaxSteps /\ \E x \in GenRegs, y \in GenRegs : ExecSHL(x, y)
    \/ steps < MaxSteps /\ \E x \in GenRegs, y \in GenRegs : ExecSNE2(x, y)
    \/ steps < MaxSteps /\ \E addr \in GenAddrs : ExecLDI(addr)
    \/ steps < MaxSteps /\ \E addr \in GenAddrs : ExecJPV0(addr)
    \/ steps < MaxSteps /\ \E x \in GenRegs, byte \in GenBytes : ExecRND(x, byte)
    \/ steps < MaxSteps /\ \E x \in GenRegs, y \in GenRegs, n \in GenHeights : ExecDRW(x, y, n)
    \/ steps < MaxSteps /\ \E x \in GenRegs : ExecSKP(x)
    \/ steps < MaxSteps /\ \E x \in GenRegs : ExecSKNP(x)
    \/ steps < MaxSteps /\ \E x \in GenRegs : ExecLD3(x)
    \/ steps < MaxSteps /\ \E x \in GenRegs : WaitEnter(x)
    \/ steps < MaxSteps /\ \E x \in GenRegs : ExecLD5(x)
    \/ steps < MaxSteps /\ \E x \in GenRegs : ExecLD6(x)
    \/ steps < MaxSteps /\ \E x \in GenRegs : ExecADD3(x)
    \/ steps < MaxSteps /\ \E x \in GenRegs : ExecLD7(x)
    \/ WaitPark
    \/ WaitSpuriousWake
    \/ WaitReacquire
    \/ WaitReturn
    \/ w_ops < MaxPresses /\ \E key \in GenKeys : WriterLock("set_pressed", key)
    \/ w_ops < MaxPresses /\ \E key \in GenKeys : WriterLock("set_unpressed", key)
    \/ WriterMutate
    \/ WriterUnlock

Spec == Init /\ [][Next]_vars

\* a driver feeding CALL and RET only, to any depth of the stack
NextStack ==
    \/ steps < MaxStackSteps /\ \E addr \in StackAddrs : ExecCALL(addr)
    \/ steps < MaxStackSteps /\ ExecRET

SpecStack == Init /\ [][NextStack]_vars

\* a driver feeding register loads and additions
NextAlu ==
    \/ steps < MaxAluSteps /\ \E x \in AluRegs, byte \in AluBytes : ExecLD(x, byte)
    \/ steps < MaxAluSteps /\ \E x \in AluRegs, y \in AluRegs : ExecADD2(x, y)

SpecAlu == Init /\ [][NextAlu]_vars

\* a driver feeding register loads and subtractions
NextSub ==
    \/ steps < MaxAluSteps /\ \E x \in AluRegs, byte \in AluBytes : ExecLD(x, byte)
    \/ steps < MaxAluSteps /\ \E x \in AluRegs, y \in AluRegs : ExecSUB(x, y)
    \/ steps < MaxAluSteps /\ \E x \in AluRegs, y \in AluRegs : ExecSUBN(x, y)

SpecSub == Init /\ [][NextSub]_vars

\* a driver feeding register loads and shifts
NextShift ==
    \/ steps < MaxAluSteps /\ \E x \in AluRegs, byte \in AluBytes : ExecLD(x, byte)
    \/ steps < MaxAluSteps /\ \E x \in AluRegs, y \in AluRegs : ExecSHR(x, y)
    \/ steps < MaxAluSteps /\ \E x \in AluRegs, y \in AluRegs : ExecSHL(x, y)

SpecShift == Init /\ [][NextShift]_vars

\* a driver feeding register loads, draws and clears; I stays 0, the address
\* of the sprite of digit 0
NextDraw ==
    \/ steps < MaxDrawSteps /\ \E x \in DrawRegs, byte \in DrawBytes : ExecLD(x, byte)
    \/ steps < MaxDrawSteps /\ \E x \in DrawRegs, y \in DrawRegs, n \in DrawHeights : ExecDRW(x, y, n)
    \/ steps < MaxDrawSteps /\ ExecCLS

SpecDraw == Init /\ [][NextDraw]_vars

\* a driver feeding register loads, key waits and key skips, beside a writer
\* thread that presses and releases keys
NextSkip ==
    \/ steps < MaxSkipSteps /\ \E x \in SkipRegs, byte \in SkipBytes : ExecLD(x, byte)
    \/ steps < MaxSkipSteps /\ \E x \in SkipRegs : ExecSKP(x)
    \/ steps < MaxSkipSteps /\ \E x \in SkipRegs : ExecSKNP(x)
    \/ steps < MaxSkipSteps /\ \E x \in SkipRegs : WaitEnter(x)
    \/ WaitPark
    \/ WaitSpuriousWake
    \/ WaitReacquire
    \/ WaitReturn
    \/ w_ops < MaxSkipPresses /\ \E key \in SkipKeys : WriterLock("set_pressed", key)
    \/ w_ops < MaxSkipPresses /\ \E key \in SkipKeys : WriterLock("set_unpressed", key)
    \/ WriterMutate
    \/ WriterUnlock

SpecSkip == Init /\ [][NextSkip]_vars

\* a driver feeding register loads and draws at and beyond the display's edges
NextEdge ==
    \/ steps < MaxEdgeSteps /\ \E x \in EdgeRegs, byte \in EdgeBytes : ExecLD(x, byte)
    \/ steps < MaxEdgeSteps /\ \E x \in EdgeRegs, y \in EdgeRegs, n \in EdgeHeights : ExecDRW(x, y, n)

SpecEdge == Init /\ [][NextEdge]_vars

\* a driver feeding calls, returns and jumps
NextCall ==
    \/ steps < MaxCallSteps /\ \E addr \in CallAddrs : ExecCALL(addr)
    \/ steps < MaxCallSteps /\ ExecRET
    \/ steps < MaxCallSteps /\ \E addr \in CallAddrs : ExecJP(addr)

SpecCall == Init /\ [][NextCall]_vars

\* a driver that loads registers, draws and hands each frame to the render
\* thread, as the loop of run() does
NextRender ==
    \/ steps < MaxRenderSteps /\ \E x \in DrawRegs, byte \in DrawBytes : ExecLD(x, byte)
    \/ steps < MaxRenderSteps /\ \E x \in DrawRegs, y \in DrawRegs, n \in DrawHeights : ExecDRW(x, y, n)
    \/ Len(channel) < MaxFrames /\ Render
    \/ Update
    \/ GameExit

SpecRender == Init /\ [][NextRender]_vars

\* the VM blocked in LD Vx,K beside a writer thread that presses and releases keys
NextKbd ==
    \/ steps < MaxWaits /\ \E x \in KbdRegs : WaitEnter(x)
    \/ WaitPark
    \/ WaitSpuriousWake
    \/ WaitReacquire
    \/ WaitReturn
    \/ w_ops < MaxWriterOps /\ \E key \in WriterKeys : WriterLock("set_pressed", key)
    \/ w_ops < MaxWriterOps /\ \E key \in WriterKeys : WriterLock("set_unpressed", key)
    \/ WriterMutate
    \/ WriterUnlock

\* a thread that is not blocked keeps running: the waiter evaluates its
\* condition while it holds the mutex, and a writer inside a call finishes the
\* call.  A thread blocked in lock() gets the mutex if it is free again and
\* again (strong fairness: the other thread may take it in between).  Nothing
\* obliges Condvar::wait to wake spuriously, nor the writer to start another
\* call.
KbdFairness ==
    /\ WF_vars(WaitPark)
    /\ SF_vars(WaitReacquire)
    /\ WF_vars(WaitReturn)
    /\ WF_vars(WriterMutate)
    /\ WF_vars(WriterUnlock)

SpecKbd == Init /\ [][NextKbd]_vars

SpecKbdFair == Init /\ [][NextKbd]_vars /\ KbdFairness

\* the VM blocked in LD Vx,K beside a thread that reads, presses and releases
\* keys
NextAccess ==
    \/ steps < MaxWaits /\ \E x \in KbdRegs : WaitEnter(x)
    \/ WaitPark
    \/ WaitSpuriousWake
    \/ WaitReacquire
    \/ WaitReturn
    \/ w_ops < MaxAccessOps /\ \E key \in WriterKeys : WriterLock("set_pressed", key)
    \/ w_ops < MaxAccessOps /\ \E key \in WriterKeys : WriterLock("set_unpressed", key)
    \/ w_ops < MaxAccessOps /\ \E key \in WriterKeys : WriterLock("is_pressed", key)
    \/ WriterMutate
    \/ WriterUnlock
    \/ WriterRead

SpecAccessFair == Init /\ [][NextAccess]_vars /\ KbdFairness /\ WF_vars(WriterRead)

\* test::instr_ld4: one execute(LD4(x)) beside a spawned thread that calls
\* set_pressed(key) once
NextLd4 ==
    \/ steps = 0 /\ \E x \in KbdRegs : WaitEnter(x)
    \/ WaitPark
    \/ WaitSpuriousWake
    \/ WaitReacquire
    \/ WaitReturn
    \/ w_ops = 0 /\ \E key \in Key : WriterLock("set_pressed", key)
    \/ WriterMutate
    \/ WriterUnlock

\* both threads of the test run: the spawned thread does call set_pressed and
\* the test thread does call execute
SpecLd4Fair ==
    /\ Init
    /\ [][NextLd4]_vars
    /\ KbdFairness
    /\ SF_vars(steps = 0 /\ \E x \in KbdRegs : WaitEnter(x))
    /\ SF_vars(w_ops = 0 /\ \E key \in Key : WriterLock("set_pressed", key))

(***************************************************************************)
(* Properties of Keyboard::wait                                            *)
(***************************************************************************)
\* the VM thread is inside Keyboard::wait
InWait == vm_pc # "ready"

\* the latest execute call was LD Vx,K and it has returned
Ld4Returned == vm_pc = "ready" /\ last.op = "LD4" /\ vm.fault = "none"

Press(key) == [op |-> "set_pressed", key |-> key]

Unpress(key) == [op |-> "set_unpressed", key |-> key]

\* C1: wait snapshots the pressed set when it is invoked, and whenever it
\* returns it returns one key that is outside that snapshot and is in the
\* pressed set at the moment of return; a key already held down at wait entry
\* is never returned, whatever the writer thread does in between.
C1_WaitReturnsNewKey ==
    [][/\ (~InWait /\ InWait') => current_keys' = keys
       /\ (InWait /\ ~InWait') =>
             /\ ret' \in Key
             /\ ret' \notin current_keys
             /\ ret' \in keys'
             /\ current_keys' = current_keys]_vars

\* wait returned although keys were held down at entry and the writer has
\* both pressed and released keys in the meantime
C1_Witness ==
    /\ Ld4Returned
    /\ current_keys # {}
    /\ ret \in Key
    /\ \E i \in 1..Len(w_log) : w_log[i].op = "set_unpressed"

\* the writer's mutations since the baseline are set_pressed(Key2) only
OnlyKey2Pressed(log) == \A i \in 1..Len(log) : log[i] = Press("Key2")

\* ... followed by one set_pressed(Key4)
Key2ThenKey4(log) ==
    /\ Len(log) >= 1
    /\ log[Len(log)] = Press("Key4")
    /\ OnlyKey2Pressed(SubSeq(log, 1, Len(log) - 1))

C2_Scenario == last.op = "LD4" /\ current_keys = {"Key2"} /\ Key2ThenKey4(w_log)

\* C2: with baseline {Key2}, further set_pressed(Key2) calls leave wait
\* blocked however many there are; a set_pressed(Key4) after them makes wait
\* return, and the key it returns is Key4.
C2_Key2KeepsBlockedKey4Unblocks ==
    /\ [](last.op = "LD4" /\ current_keys = {"Key2"} /\ OnlyKey2Pressed(w_log) => InWait)
    /\ (C2_Scenario ~> ((Ld4Returned /\ ret = "Key4") \/ ~C2_Scenario))

\* Key2 was set pressed again twice while wait was blocked, then Key4 was
\* pressed and wait returned it
C2_Witness ==
    /\ C2_Scenario
    /\ Len(w_log) >= 3
    /\ Ld4Returned
    /\ ret = "Key4"
    /\ vm.gen_registers[last.a] = 4

\* the writer has pressed, since the baseline, a key outside the baseline
PressedNewKey ==
    \E i \in 1..Len(w_log) :
        w_log[i].op = "set_pressed" /\ w_log[i].key \notin current_keys

PressedKey == w_call.key

Ld4Done ==
    /\ Ld4Returned
    /\ vm.gen_registers[last.a] = to_num(PressedKey)
    /\ vm.reg_pc = 1

\* C4 as stated: LD Vx,K beside one set_pressed(k) terminates in every
\* interleaving with Vx = to_num(k) and PC advanced by 1.
C4_Ld4Terminates_Original == <>Ld4Done

\* C4 as amended: when set_pressed inserts the key after wait took its
\* baseline, LD Vx,K terminates with Vx = to_num(k) and PC advanced by 1;
\* when set_pressed ran before the snapshot the key is part of the baseline
\* and LD Vx,K never returns.
C4_Ld4Terminates ==
    /\ [](Ld4Returned => Ld4Done)
    /\ ((InWait /\ current_keys = {}) ~> Ld4Done)
    /\ [][(InWait /\ current_keys # {}) => InWait']_vars

\* LD V1,K returned KeyF's number after the writer pressed KeyF
C4_Witness ==
    /\ Ld4Done
    /\ last.a = 1
    /\ PressedKey = "KeyF"
    /\ vm.gen_registers[1] = 15
    /\ current_keys = {}

(***************************************************************************)
(* Properties of VM::execute                                               *)
(***************************************************************************)
\* this step is the start of an execute call; every arm but LD4 also ends in it
Executes(op) == steps' # steps /\ last'.op = op

\* C5 as stated: RET with SP = 0 ends the step in a fault; SP is not
\* decremented to a wrapped value and PC is not loaded from stack[0].
C5_RetOnEmptyStackFaults ==
    [][(Executes("RET") /\ vm.reg_sp = 0) =>
          /\ vm'.fault # "none"
          /\ vm'.reg_sp = 0
          /\ vm'.reg_pc = vm.reg_pc]_vars

\* C6 as stated: the stack pointer stays in 0..15: a CALL executed with SP in
\* 0..15 leaves it there, because at SP = 15 the fault is raised before SP is
\* incremented, so SP never becomes 16.
C6_CallKeepsSpInRange ==
    [][(Executes("CALL") /\ vm.reg_sp \in 0..(STACK_SIZE - 1)) =>
          vm'.reg_sp \in 0..(STACK_SIZE - 1)]_vars

\* the mnemonics whose arm does not set PC itself
C7_Advancing ==
    {"CLS", "LD", "ADD", "LD2", "OR", "AND", "XOR", "ADD2", "SUB", "SHR", "SUBN",
     "SHL", "LDI", "RND", "DRW", "LD3", "LD4", "LD5", "LD6", "ADD3", "LD7"}

\* whether the conditional skip i skips, given the registers and pressed keys
C7_Skips(i, regs, pressed) ==
    CASE i.op = "SE"   -> regs[i.a] = i.b
      [] i.op = "SNE"  -> regs[i.a] # i.b
      [] i.op = "SE2"  -> regs[i.a] = regs[i.b]
      [] i.op = "SNE2" -> regs[i.a] # regs[i.b]
      [] i.op = "SKP"  -> from_num(regs[i.a]) \in pressed
      [] i.op = "SKNP" -> from_num(regs[i.a]) \notin pressed

C7_Skipping == {"SE", "SNE", "SE2", "SNE2", "SKP", "SKNP"}

\* the PC the rule gives after instruction i, executed with PC = pc
C7_PcAfter(i, pc, regs, pressed) ==
    CASE i.op \in C7_Advancing -> pc + 1
      [] i.op \in C7_Skipping  -> IF C7_Skips(i, regs, pressed) THEN pc + 2 ELSE pc + 1
      [] i.op = "JP"           -> i.a
      [] i.op = "JPV0"         -> i.a + regs[0]

\* C7: every execute call that returns leaves PC as the rule says: PC + 1
\* after an instruction that does not set PC, PC + 2 or PC + 1 after a
\* conditional skip according to its condition, addr after JP addr and
\* addr + V0 after JP V0,addr.
C7_PcRule ==
    [][/\ (/\ steps' # steps
           /\ last'.op \in (C7_Advancing \cup C7_Skipping \cup {"JP", "JPV0"}) \ {"LD4"}
           /\ vm'.fault = "none") =>
             vm'.reg_pc = C7_PcAfter(last', vm.reg_pc, vm.gen_registers, keys)
       /\ (InWait /\ ~InWait' /\ vm'.fault = "none") =>
             vm'.reg_pc = C7_PcAfter(last, vm.reg_pc, vm.gen_registers, keys)]_vars

\* SKP V0 skipped from PC = 1 because the key numbered by V0 = 2 was pressed
C7_Witness ==
    /\ last = Instr("SKP", 0, 0, 0)
    /\ vm.gen_registers[0] = 2
    /\ "Key2" \in keys
    /\ vm.reg_pc = 3
    /\ vm.fault = "none"

\* C8 as stated: SYS is a no-op that advances PC by exactly 1 and changes
\* nothing else.
C8_SysAdvancesPc_Original ==
    [][Executes("SYS") => vm' = [vm EXCEPT !.reg_pc = vm.reg_pc + 1]]_vars

\* C8 as amended: SYS, the one variant that reaches the wildcard arm, does
\* not advance PC: the step ends without a fault and PC is what it was.
C8_SysKeepsPc ==
    [][Executes("SYS") => (vm'.fault = "none" /\ vm'.reg_pc = vm.reg_pc)]_vars

\* SYS executed at PC = 1 left PC = 1
C8_Witness == last.op = "SYS" /\ steps = 2 /\ vm.reg_pc = 1 /\ vm.fault = "none"

\* C9: SYS is ignored: the VM and the keyboard are after the step what they
\* were before it, PC included.
C9_SysIgnored ==
    [][Executes("SYS") => (vm' = vm /\ keys' = keys /\ vm_pc' = vm_pc)]_vars

\* SYS executed on the initial VM: PC is still 0
C9_Witness == last.op = "SYS" /\ steps = 1 /\ vm = VM_new /\ vm.reg_pc = 0

\* C10: ADD Vx,Vy with x # F leaves Vx = (Vx + Vy) mod 256, VF = 1 when the
\* sum exceeds 255 and VF = 0 when it does not, PC = PC + 1, and every other
\* register, the stack, the display, I and the timers as they were.
C10_AddRegisters ==
    [][(Executes("ADD2") /\ last'.a # VF) =>
          LET x == last'.a
              sum == vm.gen_registers[last'.a] + vm.gen_registers[last'.b]
          IN  /\ vm'.fault = "none"
              /\ vm'.gen_registers[x] = sum % 256
              /\ vm'.gen_registers[VF] = (IF sum > 255 THEN 1 ELSE 0)
              /\ vm'.reg_pc = vm.reg_pc + 1
              /\ \A r \in (0..(NUM_REGISTERS - 1)) \ {x, VF} :
                     vm'.gen_registers[r] = vm.gen_registers[r]
              /\ vm'.stack = vm.stack
              /\ vm'.display = vm.display
              /\ vm'.reg_i = vm.reg_i
              /\ vm'.reg_sp = vm.reg_sp
              /\ vm'.reg_delay = vm.reg_delay
              /\ vm'.reg_sound = vm.reg_sound]_vars

\* ADD V0,V1 with V0 = 0x80 and V1 = 0x81 left V0 = 0x01, VF = 1 and PC = 3
C10_Witness ==
    /\ last = Instr("ADD2", 0, 1, 0)
    /\ vm.gen_registers[0] = 1
    /\ vm.gen_registers[1] = 129
    /\ vm.gen_registers[VF] = 1
    /\ vm.reg_pc = 3
    /\ vm.fault = "none"

\* C11 as stated: ADD Vx,byte completes without a fault for every Vx and
\* byte, sums above 255 included, leaves Vx = (Vx + byte) mod 256, leaves VF as
\* it was when x # F, and leaves PC = PC + 1.
C11_AddByteWraps ==
    [][Executes("ADD") =>
          LET x == last'.a
          IN  /\ vm'.fault = "none"
              /\ vm'.gen_registers[x] = (vm.gen_registers[x] + last'.b) % 256
              /\ x # VF => vm'.gen_registers[VF] = vm.gen_registers[VF]
              /\ vm'.reg_pc = vm.reg_pc + 1]_vars

\* the unsigned magnitude |a - b|
C12_Magnitude(a, b) == IF a > b THEN a - b ELSE b - a

\* C12: SUB Vx,Vy with x # F leaves VF = 1 when Vx > Vy strictly and VF = 0
\* otherwise, and Vx = |Vx - Vy| in both branches; SUBN Vx,Vy is the mirror:
\* VF = 1 when Vy > Vx strictly, VF = 0 otherwise, Vx = |Vy - Vx|.  Neither
\* faults, and both leave PC = PC + 1.
C12_SubSubn ==
    [][/\ (Executes("SUB") /\ last'.a # VF) =>
             LET vx == vm.gen_registers[last'.a]
                 vy == vm.gen_registers[last'.b]
             IN  /\ vm'.fault = "none"
                 /\ vm'.gen_registers[VF] = (IF vx > vy THEN 1 ELSE 0)
                 /\ vm'.gen_registers[last'.a] = C12_Magnitude(vx, vy)
                 /\ vm'.reg_pc = vm.reg_pc + 1
       /\ (Executes("SUBN") /\ last'.a # VF) =>
             LET vx == vm.gen_registers[last'.a]
                 vy == vm.gen_registers[last'.b]
             IN  /\ vm'.fault = "none"
                 /\ vm'.gen_registers[VF] = (IF vy > vx THEN 1 ELSE 0)
                 /\ vm'.gen_registers[last'.a] = C12_Magnitude(vy, vx)
                 /\ vm'.reg_pc = vm.reg_pc + 1]_vars

\* SUB V0,V1 with V0 = V1 = 0x80 left V0 = 0 and VF = 0
C12_Witness ==
    /\ last = Instr("SUB", 0, 1, 0)
    /\ steps = 3
    /\ vm.gen_registers[1] = 128
    /\ vm.gen_registers[0] = 0
    /\ vm.gen_registers[VF] = 0
    /\ vm.reg_pc = 3
    /\ vm.fault = "none"

\* C13: with x # F, SHR Vx leaves VF = bit 0 of the old Vx and Vx = Vx >> 1;
\* SHL Vx leaves VF = bit 7 of the old Vx and Vx = (Vx << 1) mod 256; the
\* second operand plays no part, and PC = PC + 1.
C13_Shifts ==
    [][/\ (Executes("SHR") /\ last'.a # VF) =>
             LET vx == vm.gen_registers[last'.a]
             IN  /\ vm'.fault = "none"
                 /\ vm'.gen_registers[VF] = vx % 2
                 /\ vm'.gen_registers[last'.a] = vx \div 2
                 /\ vm'.reg_pc = vm.reg_pc + 1
       /\ (Executes("SHL") /\ last'.a # VF) =>
             LET vx == vm.gen_registers[last'.a]
             IN  /\ vm'.fault = "none"
                 /\ vm'.gen_registers[VF] = vx \div 128
                 /\ vm'.gen_registers[last'.a] = (vx * 2) % 256
                 /\ vm'.reg_pc = vm.reg_pc + 1
       /\ (Executes("SHR") \/ Executes("SHL")) =>
             \A r \in (0..(NUM_REGISTERS - 1)) \ {last'.a, VF} :
                 vm'.gen_registers[r] = vm.gen_registers[r]]_vars

\* SHL V0,V1 with V0 = 0x81 and V1 = 0xFF left V0 = 0x02, VF = 1, V1 = 0xFF
C13_Witness ==
    /\ last = Instr("SHL", 0, 1, 0)
    /\ steps = 3
    /\ vm.gen_registers[0] = 2
    /\ vm.gen_registers[1] = 255
    /\ vm.gen_registers[VF] = 1
    /\ vm.reg_pc = 3
    /\ vm.fault = "none"

\* the row mask memory[I+i] << (56 - Vx) of sprite row i
C14_Mask(v, vx, i) == {j + (56 - vx) : j \in BitsOf(memory(v.reg_i + i))}

\* the display after an XOR blit of n sprite rows at column vx onto rows
\* vy..vy+n-1 of display d
C14_Blit(v, vx, vy, n) ==
    [r \in 0..(DISPLAY_HEIGHT - 1) |->
        IF r \in vy..(vy + n - 1)
        THEN row_xor(v.display[r], C14_Mask(v, vx, r - vy))
        ELSE v.display[r]]

\* a DRW step whose sprite lies inside the display
C14_DrawsInside ==
    /\ Executes("DRW")
    /\ vm.gen_registers[last'.a] <= DISPLAY_WIDTH - 8
    /\ vm.gen_registers[last'.b] + last'.c <= DISPLAY_HEIGHT

\* C14 as stated: DRW Vx,Vy,n XORs memory[I+i] << (56 - Vx) into row Vy+i,
\* the row as it was before the draw, for every i below n, whatever the
\* display held and whichever registers x and y name; every other row, and I,
\* stay as they were, and PC = PC + 1.
C14_DrawXorBlit ==
    [][C14_DrawsInside =>
          /\ vm'.fault = "none"
          /\ vm'.display = C14_Blit(vm, vm.gen_registers[last'.a],
                                    vm.gen_registers[last'.b], last'.c)
          /\ vm'.reg_i = vm.reg_i
          /\ vm'.reg_pc = vm.reg_pc + 1]_vars

\* some pixel of rows vy..vy+n-1 that is on in display d is hit by the sprite
C15_Collides(v, vx, vy, n) ==
    \E i \in 0..(n - 1) : v.display[vy + i] \cap C14_Mask(v, vx, i) # {}

\* C15 as stated: after a DRW that blits its n rows, VF = 1 when in any of
\* the rows a pixel that was on was turned off, in the last row or in an
\* earlier one, and VF = 0 otherwise, whatever VF held before.
C15_CollisionFlag ==
    [][(/\ C14_DrawsInside
        /\ vm'.display = C14_Blit(vm, vm.gen_registers[last'.a],
                                  vm.gen_registers[last'.b], last'.c)) =>
          vm'.gen_registers[VF] =
              (IF C15_Collides(vm, vm.gen_registers[last'.a],
                               vm.gen_registers[last'.b], last'.c)
               THEN 1 ELSE 0)]_vars

\* the cleared display
C16_Cleared == [r \in 0..(DISPLAY_HEIGHT - 1) |-> {}]

\* the display a first draw on the cleared display is to leave
C16_Sprite(v, vx, vy, n) == C14_Blit([v EXCEPT !.display = C16_Cleared], vx, vy, n)

\* C16 as stated: on a cleared display DRW Vx,Vy,n of a sprite with pixels
\* leaves the sprite rows set and VF = 0; the same DRW executed again, with
\* I, Vx and Vy as they were, leaves every display row zero and VF = 1.
C16_DrawTwiceClears ==
    [][(C14_DrawsInside /\ last'.a # VF /\ last'.b # VF) =>
          LET vx == vm.gen_registers[last'.a]
              vy == vm.gen_registers[last'.b]
              sprite == C16_Sprite(vm, vx, vy, last'.c)
          IN  /\ (vm.display = C16_Cleared /\ sprite # C16_Cleared) =>
                    /\ vm'.display = sprite
                    /\ vm'.gen_registers[VF] = 0
              /\ (last = last' /\ vm.display = sprite /\ sprite # C16_Cleared) =>
                    /\ vm'.display = C16_Cleared
                    /\ vm'.gen_registers[VF] = 1]_vars

\* the key whose numeric code is n
C17_KeyOf(n) == CHOOSE k \in Key : to_num(k) = n

\* a step that leaves the registers, I, the stack, the display, the timers and
\* the keyboard as they were
C17_OnlyPcMoves ==
    /\ vm' = [vm EXCEPT !.reg_pc = vm'.reg_pc]
    /\ keys' = keys

\* C17: for Vx in 0..15 and any pressed set, SKP Vx leaves PC = PC + 2 when
\* the key numbered Vx is pressed and PC = PC + 1 when it is not, and SKNP Vx
\* the opposite, so exactly one of the two skips; neither changes the
\* keyboard or a register.
C17_KeySkips ==
    [][/\ (Executes("SKP") /\ vm.gen_registers[last'.a] \in 0..15) =>
             /\ vm'.reg_pc = vm.reg_pc +
                    (IF C17_KeyOf(vm.gen_registers[last'.a]) \in keys THEN 2 ELSE 1)
             /\ C17_OnlyPcMoves
       /\ (Executes("SKNP") /\ vm.gen_registers[last'.a] \in 0..15) =>
             /\ vm'.reg_pc = vm.reg_pc +
                    (IF C17_KeyOf(vm.gen_registers[last'.a]) \in keys THEN 1 ELSE 2)
             /\ C17_OnlyPcMoves]_vars

\* SKNP V0 with V0 = 15 did not skip from PC = 1 while KeyF was pressed
C17_Witness ==
    /\ last = Instr("SKNP", 0, 0, 0)
    /\ steps = 2
    /\ vm.gen_registers[0] = 15
    /\ keys = {"KeyF"}
    /\ w_ops = 1
    /\ vm.reg_pc = 2
    /\ vm.fault = "none"

\* C18: SKP Vx or SKNP Vx with Vx >= 16 ends the step in a fatal fault; the
\* instruction is not ignored and PC is not advanced as if the key were
\* pressed or not pressed.
C18_UnknownKeyFaults ==
    [][((Executes("SKP") \/ Executes("SKNP")) /\ vm.gen_registers[last'.a] >= 16) =>
          /\ vm'.fault # "none"
          /\ vm'.reg_pc = vm.reg_pc]_vars

\* SKP V1 with V1 = 16 panicked at PC = 1
C18_Witness ==
    /\ last = Instr("SKP", 1, 0, 0)
    /\ vm.gen_registers[1] = 16
    /\ vm.fault = "unwrap"
    /\ vm.reg_pc = 1

\* C19 as stated: LD F,Vx leaves I = 5 * (Vx mod 16), the address of the
\* sprite of the low nibble of Vx, inside the font region 0..79, for every
\* Vx in 0..255; the step never faults and PC = PC + 1.
C19_DigitAddress ==
    [][Executes("LD7") =>
          /\ vm'.fault = "none"
          /\ vm'.reg_i = 5 * (vm.gen_registers[last'.a] % 16)
          /\ vm'.reg_i \in 0..(Len(FontBytes) - 1)
          /\ vm'.reg_pc = vm.reg_pc + 1]_vars

\* C20: every key has a code in 0..15, distinct keys have distinct codes,
\* from_num(to_num(k)) is k for each of the 16 keys, and from_num(n) is None
\* for every n in 16..255; so the register LD Vx,K stored decodes, in SKP and
\* SKNP, to the key that wait returned.
C20_KeyCodesRoundTrip ==
    /\ \A k \in Key : to_num(k) \in 0..15 /\ from_num(to_num(k)) = k
    /\ Cardinality({to_num(k) : k \in Key}) = Cardinality(Key)
    /\ \A n \in 16..255 : from_num(n) = None
    /\ Ld4Returned => from_num(vm.gen_registers[last.a]) = ret

\* LD V1,K returned KeyF and stored 15 in V1
C20_Witness ==
    /\ Ld4Returned
    /\ last.a = 1
    /\ ret = "KeyF"
    /\ vm.gen_registers[1] = 15
    /\ from_num(15) = "KeyF"

\* key k was in the baseline, was released and was pressed again while wait
\* was blocked, and is pressed now
C21_Repressed(k) ==
    /\ k \in current_keys
    /\ k \in keys
    /\ \E i, j \in 1..Len(w_log) : i < j /\ w_log[i] = Unpress(k) /\ w_log[j] = Press(k)

\* C21 as stated: a baseline key that is released and pressed again while
\* wait is blocked counts as newly pressed: wait unblocks and returns it.
C21_RepressUnblocks_Original ==
    \A k \in WriterKeys :
        (InWait /\ C21_Repressed(k)) ~> ((Ld4Returned /\ ret = k) \/ k \notin keys)

\* a DRW step with some row index Vy+i beyond the last display row
C22_DrawsBelow ==
    /\ Executes("DRW")
    /\ last'.c >= 1
    /\ vm.gen_registers[last'.b] + last'.c > DISPLAY_HEIGHT

C23_ColumnBeyondDisplayCompletes ==
    [][(/\ Executes("DRW")
        /\ last'.c >= 1
        /\ vm.gen_registers[last'.a] > DISPLAY_WIDTH - 8
        /\ vm.gen_registers[last'.b] + last'.c <= DISPLAY_HEIGHT) =>
          /\ vm'.fault = "none"
          /\ vm'.reg_pc = vm.reg_pc + 1]_vars

\* the flag of a flag-producing instruction i, from the registers before it
C25_Flag(i, regs) ==
    CASE i.op = "ADD2" -> IF regs[i.a] + regs[i.b] > 255 THEN 1 ELSE 0
      [] i.op = "SUB"  -> IF regs[i.a] > regs[i.b] THEN 1 ELSE 0
      [] i.op = "SUBN" -> IF regs[i.b] > regs[i.a] THEN 1 ELSE 0
      [] i.op = "SHR"  -> regs[i.a] % 2
      [] i.op = "SHL"  -> regs[i.a] \div 128

\* C25 as stated: after ADD Vx,Vy, SUB, SUBN, SHR or SHL, for every
\* destination x, x = F included, VF holds the instruction's flag, 0 or 1: the
\* flag write wins over the result write when both go to VF.
C25_FlagWins ==
    [][(steps' # steps /\ last'.op \in {"ADD2", "SUB", "SUBN", "SHR", "SHL"}) =>
          /\ vm'.gen_registers[VF] = C25_Flag(last', vm.gen_registers)
          /\ vm'.gen_registers[VF] \in {0, 1}]_vars

\* C27 as stated: CALL addr with SP < 15 leaves SP = SP + 1, stack[SP + 1] =
\* the PC of the CALL, PC = addr and every other stack slot as it was, and no
\* CALL ever writes slot 0; RET with SP >= 1 leaves PC = stack[SP] and
\* SP = SP - 1.  So a RET after a CALL restores SP and the PC of the CALL, and
\* nested CALLs return last-in-first-out.
C27_StackDiscipline ==
    [][/\ (Executes("CALL") /\ vm.reg_sp < STACK_SIZE - 1) =>
             /\ vm'.fault = "none"
             /\ vm'.reg_sp = vm.reg_sp + 1
             /\ vm'.reg_pc = last'.a
             /\ vm'.stack = [vm.stack EXCEPT ![vm.reg_sp + 1] = vm.reg_pc]
       /\ Executes("CALL") => vm'.stack[0] = vm.stack[0]
       /\ (Executes("RET") /\ vm.reg_sp \in 1..(STACK_SIZE - 1)) =>
             /\ vm'.fault = "none"
             /\ vm'.reg_pc = vm.stack[vm.reg_sp]
             /\ vm'.reg_sp = vm.reg_sp - 1
             /\ vm'.stack = vm.stack]_vars

\* C26: wait holds the mutex only while it snapshots and while it evaluates
\* its condition, never while parked, so the mutex always comes free again
\* and every set_pressed, set_unpressed and is_pressed call of the other
\* thread that has the lock completes and releases it; each set_pressed and
\* set_unpressed wakes a parked waiter; and wait never returns unless a
\* set_pressed ran since its baseline: set_unpressed alone does not end it.
C26_WriterNeverDeadlocks ==
    /\ [](vm_pc \in {"wait_parked", "wait_woken", "ready"} => mutex # "vm")
    /\ [](w_pc = "idle" => mutex # "writer")
    /\ ((mutex = "vm") ~> (mutex # "vm"))
    /\ ((w_pc # "idle") ~> (w_pc = "idle"))
    /\ [][(w_pc = "locked" /\ w_pc' = "notified" /\ vm_pc = "wait_parked") =>
              vm_pc' = "wait_woken"]_vars
    /\ [][(InWait /\ ~InWait') =>
              \E i \in 1..Len(w_log) : w_log[i].op = "set_pressed"]_vars

\* Key2 was held at wait entry; while the waiter stayed blocked the other
\* thread completed set_unpressed(Key2), which woke the waiter and did not end
\* the wait, and then an is_pressed
C26_Witness ==
    /\ vm_pc = "wait_parked"
    /\ current_keys = {"Key2"}
    /\ keys = {}
    /\ w_pc = "idle"
    /\ mutex = "free"
    /\ w_ops = 3
    /\ w_call.op = "is_pressed"
    /\ w_log = <<Unpress("Key2")>>

\* C24 as stated: the hand-off is latest-value-wins: whenever update takes a
\* frame while several are unread it adopts the frame that was sent last and
\* the older unread frames are dropped, so no backlog is left behind.
C24_LatestFrameWins ==
    [][(Len(channel) >= 2 /\ Len(channel') < Len(channel)) =>
          /\ game_display' = channel[Len(channel)]
          /\ channel' = <<>>]_vars

=============================================================================
